---- MODULE Spec2Model ----
(***************************************************************************)
(* Bayesian linear regression with basis-function expansion, as written in *)
(* Bayesian_Linear_Regression_With_pymc3.ipynb: the expansion functions,   *)
(* the notebook's cells model definition -> pm.sample -> posterior         *)
(* predictive sampling, and the values those cells leave in the notebook's *)
(* globals.                                                                *)
(*                                                                         *)
(* Numbers.  Inputs of the Gaussian expansion and of the notebook run are  *)
(* reals in [0, 1]; they are held as integers in units of 1/Unit.  Values  *)
(* of the Gaussian basis functions are held in fixed point, as integers in *)
(* units of 1/Scale, every division rounding down: the finite precision of *)
(* the float32 the code casts to.  Inputs of the polynomial expansion are  *)
(* plain integers.                                                         *)
(***************************************************************************)
EXTENDS Integers, Sequences, FiniteSets, TLC

VARIABLES
  call,   \* the expansion / prediction call under study: function and arguments
  ret,    \* what that call returned (or raised)
  nb,     \* the notebook's globals and the position of its run
  nb2     \* the globals of a second run of the same notebook (reproducibility)

vars == <<call, ret, nb, nb2>>

----------------------------------------------------------------------------
(* Bounds of the model *)

MaxDegree == 3      \* polynomial degrees 0..MaxDegree are tried
MaxAbsX == 2        \* integer inputs of the polynomial expansion: -MaxAbsX..MaxAbsX
MaxLen == 2         \* longest input vector of a studied call
TestInputs == 5     \* the length of x_test in a run (100 in the notebook)

(* Number representation *)

Unit == 40          \* inputs are multiples of 1/40: 0.125 = 5, 0.3 = 12, 1 = 40
Scale == 1000       \* basis-function values are multiples of 1/1000
NaN == -1000000     \* scipy's bad value: the pdf of a distribution whose scale is <= 0
Sqrt2PiMilli == 2507    \* sqrt(2 pi) = 2.5066..., in thousandths
ExpScale == 100     \* resolution of the intermediate e^q
ExpTerms == 40      \* terms of the exponential series (9^40 / 40! < 1/ExpScale)

----------------------------------------------------------------------------
(* Python values *)

Ok(v) == [ok |-> TRUE, err |-> "", val |-> v]
Raise(e) == [ok |-> FALSE, err |-> e, val |-> <<>>]

\* a studied call and what it returned; none is studied during a notebook run
NoCall ==
  [fn |-> "none", x |-> <<>>, degree |-> 0, mus |-> <<>>, sigma |-> 0,
   posterior |-> <<>>, Phi |-> <<>>, samples |-> 0, zpat |-> 0]
NoRet == [done |-> FALSE, ok |-> FALSE, err |-> "", val |-> <<>>]
Returned(r) == [done |-> TRUE, ok |-> r.ok, err |-> r.err, val |-> r.val]

\* range(a, b) as a list
PyRange(a, b) == IF b <= a THEN <<>> ELSE [j \in 1..(b - a) |-> a + j - 1]

\* np.linspace(0, 1, n), in units of 1/Unit (n - 1 divides Unit for the n used)
linspace01(n) == IF n = 1 THEN <<0>> ELSE [j \in 1..n |-> ((j - 1) * Unit) \div (n - 1)]

----------------------------------------------------------------------------
(* Basis functions *)

\* polynomial_basis(x, power): x ** power
polynomial_basis(x, power) == x ^ power

\* e^(num/den) in units of 1/ExpScale, by its series 1 + q + q^2/2! + ...,
\* each term rounded down; term is q^(k-1)/(k-1)! on entry
RECURSIVE ExpSeries(_, _, _, _)
ExpSeries(num, den, k, term) ==
  IF k > ExpTerms \/ term = 0 THEN 0
  ELSE term + ExpSeries(num, den, k + 1, (term * num) \div (den * k))

\* norm(loc=mu, scale=sigma).pdf(x).astype(np.float32):
\*   exp(-z^2 / 2) / (sqrt(2 pi) * sigma)  with z = (x - mu) / sigma,
\* and scipy's bad value nan when the scale is not positive.  A value below the
\* fixed point's resolution is 0 (exponents over 9 are not expanded: with
\* sigma >= 0.1 the result is below 1/(2 Scale)).
NormPeak(sigma) == (Scale * Unit * 1000) \div (sigma * Sqrt2PiMilli)

\* faulty variant of gaussian_basis: the bump exp(-z^2 / 2), of peak 1
gaussian_basis_unnormalized(x, mu, sigma) ==
  IF sigma <= 0 THEN NaN
  ELSE IF (x - mu) * (x - mu) > 9 * 2 * sigma * sigma THEN 0
  ELSE (Scale * ExpScale)
         \div ExpSeries((x - mu) * (x - mu), 2 * sigma * sigma, 1, ExpScale)

gaussian_basis(x, mu, sigma) ==
  IF sigma <= 0 THEN NaN
  ELSE IF (x - mu) * (x - mu) > 9 * 2 * sigma * sigma THEN 0
  ELSE (NormPeak(sigma) * ExpScale)
         \div ExpSeries((x - mu) * (x - mu), 2 * sigma * sigma, 1, ExpScale)

----------------------------------------------------------------------------
(* Expansion: np.stack([bf(x, bf_arg) for bf_arg in bf_args], axis=1).       *)
(* np.stack raises ValueError on an empty list; otherwise row i, column j   *)
(* of the result is bf(x[i], bf_args[j]).                                   *)

Elems(s) == {s[i] : i \in DOMAIN s}

\* faulty variant of np_stack_raises: an empty list is stacked too
np_stack_accepts_empty(arrays) == FALSE

np_stack_raises(arrays) == Len(arrays) = 0

\* the basis function is passed as a value: bf[xi, bf_arg]
expand_(x, bf, bf_args) ==
  IF np_stack_raises(bf_args) THEN Raise("ValueError")
  ELSE Ok([i \in 1..Len(x) |-> [j \in 1..Len(bf_args) |-> bf[x[i], bf_args[j]]]])

\* faulty variant of poly_args: range(degree), the power of 0 included
poly_args_from_zero(degree) == PyRange(0, degree)

\* range(1, degree + 1): the power of 0 is omitted
poly_args(degree) == PyRange(1, degree + 1)

expand_polynomial(x, degree) ==
  expand_(x, [xi \in Elems(x), power \in Elems(poly_args(degree)) |->
                polynomial_basis(xi, power)],
          poly_args(degree))

expand_gaussian(x, mus, sigma) ==
  expand_(x, [xi \in Elems(x), m \in Elems(mus) |-> gaussian_basis(xi, m, sigma)],
          mus)

\* The defaults of the two expansions: degree=3; mus=np.linspace(0, 1, 9), sigma=0.3
DefaultDegree == 3
DefaultCenters == 9
DefaultSigma == 12

----------------------------------------------------------------------------
(* The model (cell "Model definition"):                                     *)
(*     w_0 ~ Normal(0, 10);  w_r ~ Normal(0, 10, shape=Phi.shape[1])        *)
(*     mu = w_0 + w_r.dot(Phi_shared.T)                                     *)
(*     t_obs ~ Normal(mu, sigma=noise, observed=t)                          *)
(* A point of the parameter space is [w_0 |-> number, w_r |-> sequence].    *)

RECURSIVE Dot(_, _)
Dot(w, phi) == IF Len(w) = 0 THEN 0 ELSE w[1] * phi[1] + Dot(Tail(w), Tail(phi))

\* mu = w_0 + w_r.dot(Phi_shared.T): one mean per row of Phi_shared
mu(point, Phi) == [k \in 1..Len(Phi) |-> point.w_0 + Dot(point.w_r, Phi[k])]

\* faulty variant of shape_cols: Phi.shape[0]
shape_rows(Phi) == Len(Phi)

\* Phi.shape[1], the size of w_r
shape_cols(Phi) == Len(Phi[1])

\* faulty variant of normal_random: noise of scale 1 whatever sigma
unscaled_noise(m, sigma, z) == [k \in 1..Len(m) |-> m[k] + z[k]]

\* A draw of t_obs = Normal(mu, sigma) at a point: the mean plus sigma times a
\* standard normal draw z[k] per component
normal_random(m, sigma, z) == [k \in 1..Len(m) |-> m[k] + sigma * z[k]]

\* pm.sample_posterior_predictive(trace, samples=n): draw idx (0-based) is taken
\* at the point idx % len_trace of chain (idx // len_trace) % nchain
ppc_point(idx, nchain, len_trace) ==
  <<((idx \div len_trace) % nchain) + 1, (idx % len_trace) + 1>>

\* ... and the result ['t_obs'] has one row per draw: row idx + 1 is a draw of
\* t_obs at that point, with the noise draws z[idx + 1]
sample_posterior_predictive(straces, Phi, sigma, n, z) ==
  [i \in 1..n |->
     LET cp == ppc_point(i - 1, Len(straces), Len(straces[1]))
     IN normal_random(mu(straces[cp[1]][cp[2]], Phi), sigma, z[i])]

----------------------------------------------------------------------------
(* One run of the notebook, from the cell "Model definition" on.  A run is a *)
(* record of the notebook's globals, of pm.sample's progress and of where    *)
(* the run stands:                                                           *)
(*   pc  "start" -> "defined" -> "sampling" -> "sampled" -> "predicted",     *)
(*       or "error" when a cell raised (err names the exception).            *)
(* pm.sample() is called with its defaults: Chains chains, each running Tune *)
(* warm-up iterations and then Draws sampling iterations; no random_seed is  *)
(* passed to it, to np.random.normal or to sample_posterior_predictive, so   *)
(* every random outcome is a free choice of the run.                         *)

Tune == 1           \* warm-up iterations per chain
Draws == 1          \* sampling iterations per chain
Chains == 2         \* pm.sample(): chains = max(2, cores)
samples == 5000     \* sample_posterior_predictive(..., samples=5000)
noise == 12         \* noise = 0.3
PriorSigma == 10    \* pm.Normal(..., mu=0, sigma=10)

\* f(x, noise) = 0.5 + sin(2 pi x) + normal(scale=noise): on the inputs
\* 0, 0.5 and 1 the sine is 0; z are the standard normal draws
SinTwoPi(xi) == CASE xi \in {0, Unit \div 2, Unit} -> 0

f(x, sd, z) == [i \in 1..Len(x) |-> (Unit \div 2) + SinTwoPi(x[i]) + sd * z[i]]

NoModel == [defined |-> FALSE, w_r_shape |-> 0, observed |-> <<>>, sigma |-> 0]
NoSampler == [chain |-> 0, it |-> 0, q |-> 0, straces |-> <<>>, stats |-> <<>>]
NoTrace == [straces |-> <<>>, stats |-> <<>>]

\* the settings of the expansion the notebook is run with: the function
\* `expand` is bound to, and the default arguments in effect
ExpandSettings ==
  {[expand |-> "expand_polynomial", degree |-> d, mus |-> <<>>, sigma |-> 0] :
     d \in {0, 1, DefaultDegree}}
  \cup
  {[expand |-> "expand_gaussian", degree |-> 0, mus |-> ms, sigma |-> s] :
     ms \in {<<>>, linspace01(DefaultCenters)}, s \in {0, DefaultSigma}}

\* the globals after the dataset cell: x = np.linspace(0, 1, N), t = f(x, noise),
\* x_test = np.linspace(0, 1, K)
InitialRun(e, N, K, z) ==
  [pc |-> "start", err |-> "",
   expand |-> e.expand, degree |-> e.degree, mus |-> e.mus, sigma |-> e.sigma,
   x |-> linspace01(N), t |-> f(linspace01(N), noise, [i \in 1..N |-> z]),
   x_test |-> linspace01(K),
   Phi |-> <<>>, Phi_shared |-> <<>>, model |-> NoModel,
   sampler |-> NoSampler, trace |-> NoTrace,
   predictive_samples |-> [shape |-> <<0, 0>>, points |-> <<>>]]

\* the dataset sizes N and the noise draws the runs start from
DatasetSizes == {1, 3}

InitialRuns ==
  {InitialRun(e, N, TestInputs, z) :
     e \in ExpandSettings, N \in DatasetSizes, z \in {-1, 1}}

\* expand(x): the expansion `expand` is bound to, with its defaults
expand(r, xs) ==
  IF r.expand = "expand_polynomial" THEN expand_polynomial(xs, r.degree)
  ELSE expand_gaussian(xs, r.mus, r.sigma)

\* Phi = expand(x); Phi_shared = shared(Phi); with pm.Model() as model: ...
define_model(r) ==
  LET e == expand(r, r.x)
  IN IF ~e.ok THEN [r EXCEPT !.pc = "error", !.err = e.err]
     ELSE [r EXCEPT !.pc = "defined", !.Phi = e.val, !.Phi_shared = e.val,
                    !.model = [defined |-> TRUE, w_r_shape |-> shape_cols(e.val),
                               observed |-> r.t, sigma |-> noise]]

\* the log-density of the model at a point is finite: the prior and noise
\* scales are positive and no entry of the design matrix is nan
logp_finite(r) ==
  /\ PriorSigma > 0 /\ r.model.sigma > 0
  /\ \A i \in 1..Len(r.Phi_shared) : \A j \in 1..Len(r.Phi_shared[i]) :
       r.Phi_shared[i][j] # NaN

Point(q, M) == [w_0 |-> q, w_r |-> [j \in 1..M |-> q]]

\* pm.sample() begins: a model whose log-density is not finite at the starting
\* point is refused with an exception, before the first iteration
sample_start(r) ==
  IF ~logp_finite(r) THEN [r EXCEPT !.pc = "error", !.err = "SamplingError"]
  ELSE [r EXCEPT !.pc = "sampling",
                 !.sampler = [chain |-> 1, it |-> 0, q |-> 0,
                              straces |-> [c \in 1..Chains |-> <<>>],
                              stats |-> [c \in 1..Chains |-> <<>>]]]

\* one iteration of the chain at work: the proposal (a new position) is
\* accepted, rejected, or its trajectory diverges; the state the chain is in
\* afterwards is recorded, with the iteration's statistics
sample_iter(r, outcome) ==
  LET s == r.sampler
      q2 == IF outcome = "accept" THEN s.q + 1 ELSE s.q
      last == s.it + 1 = Tune + Draws
  IN [r EXCEPT !.sampler =
        [chain |-> IF last THEN s.chain + 1 ELSE s.chain,
         it |-> IF last THEN 0 ELSE s.it + 1,
         q |-> IF last THEN 0 ELSE q2,
         straces |-> [s.straces EXCEPT ![s.chain] =
                        Append(@, Point(q2, r.model.w_r_shape))],
         stats |-> [s.stats EXCEPT ![s.chain] =
                      Append(@, [tune |-> s.it < Tune, outcome |-> outcome])]]]

\* faulty variant of discard_tuned: the warm-up iterations stay
keep_tuned(strace) == strace

\* discard_tuned_samples=True: the warm-up iterations are cut off each chain
discard_tuned(strace) == SubSeq(strace, Tune + 1, Len(strace))

\* trace = pm.sample(): returns when every chain has done its iterations
sample_return(r) ==
  [r EXCEPT !.pc = "sampled",
            !.trace = [straces |-> [c \in 1..Chains |-> discard_tuned(r.sampler.straces[c])],
                       stats |-> [c \in 1..Chains |-> discard_tuned(r.sampler.stats[c])]]]

\* faulty variant of ppc_samples: one draw per posterior sample
ppc_samples_default(n, straces) == Len(straces) * Len(straces[1])

\* the number of predictive draws: the samples argument
ppc_samples(n, straces) == n

\* Phi_shared.set_value(expand(x_test))
\* predictive_samples = pm.sample_posterior_predictive(trace, model=model,
\*                                                      samples=5000)['t_obs']
\* Of the 5000 x K array the shape is kept here, and the (chain, point) its
\* first Chains * Draws + 1 rows were drawn at; row idx + 1 is the draw that
\* sample_posterior_predictive (above) takes at ppc_point(idx, ...).
predict(r) ==
  LET e == expand(r, r.x_test)
  IN IF ~e.ok THEN [r EXCEPT !.pc = "error", !.err = e.err]
     ELSE [r EXCEPT !.pc = "predicted", !.Phi_shared = e.val,
                    !.predictive_samples =
                       [shape |-> <<ppc_samples(samples, r.trace.straces),
                                    Len(mu(r.trace.straces[1][1], e.val))>>,
                        points |-> [i \in 1..(Chains * Draws + 1) |->
                                      ppc_point(i - 1, Len(r.trace.straces),
                                                Len(r.trace.straces[1]))]]]

Outcomes == {"accept", "reject", "diverge"}

Init ==
  /\ nb \in InitialRuns
  /\ nb2 = <<>>
  /\ call = NoCall
  /\ ret = NoRet

DefineModel ==
  /\ nb.pc = "start"
  /\ nb' = define_model(nb)
  /\ UNCHANGED <<call, ret, nb2>>

SampleStart ==
  /\ nb.pc = "defined"
  /\ nb' = sample_start(nb)
  /\ UNCHANGED <<call, ret, nb2>>

SampleIter ==
  /\ nb.pc = "sampling" /\ nb.sampler.chain <= Chains
  /\ \E o \in Outcomes : nb' = sample_iter(nb, o)
  /\ UNCHANGED <<call, ret, nb2>>

SampleReturn ==
  /\ nb.pc = "sampling" /\ nb.sampler.chain > Chains
  /\ nb' = sample_return(nb)
  /\ UNCHANGED <<call, ret, nb2>>

Predict ==
  /\ nb.pc = "sampled"
  /\ nb' = predict(nb)
  /\ UNCHANGED <<call, ret, nb2>>

Next == DefineModel \/ SampleStart \/ SampleIter \/ SampleReturn \/ Predict

Spec == Init /\ [][Next]_vars

----------------------------------------------------------------------------
(* The notebook run twice ("Try running the example again"): the second run  *)
(* starts from the same globals (the same data, the same settings) once the  *)
(* first is through.                                                         *)

InitRuns ==
  /\ nb \in {InitialRun(e, 1, TestInputs, 1) : e \in ExpandSettings}
  /\ nb2 = nb
  /\ call = NoCall
  /\ ret = NoRet

AgainDefineModel ==
  /\ nb.pc = "predicted" /\ nb2.pc = "start"
  /\ nb2' = define_model(nb2)
  /\ UNCHANGED <<call, ret, nb>>

AgainSampleStart ==
  /\ nb2.pc = "defined"
  /\ nb2' = sample_start(nb2)
  /\ UNCHANGED <<call, ret, nb>>

AgainSampleIter ==
  /\ nb2.pc = "sampling" /\ nb2.sampler.chain <= Chains
  /\ \E o \in Outcomes : nb2' = sample_iter(nb2, o)
  /\ UNCHANGED <<call, ret, nb>>

AgainSampleReturn ==
  /\ nb2.pc = "sampling" /\ nb2.sampler.chain > Chains
  /\ nb2' = sample_return(nb2)
  /\ UNCHANGED <<call, ret, nb>>

AgainPredict ==
  /\ nb2.pc = "sampled"
  /\ nb2' = predict(nb2)
  /\ UNCHANGED <<call, ret, nb>>

NextRuns ==
  \/ DefineModel \/ SampleStart \/ SampleIter \/ SampleReturn \/ Predict
  \/ AgainDefineModel \/ AgainSampleStart \/ AgainSampleIter
  \/ AgainSampleReturn \/ AgainPredict

SpecRuns == InitRuns /\ [][NextRuns]_vars

----------------------------------------------------------------------------
(* Calls of the expansion functions on their own (the notebook invites them: *)
(* "expand_polynomial(np.array([0.5, 1.5]), degree=3)", "overriding the      *)
(* default arguments of expand_polynomial and expand_gaussian").             *)

SeqsUpTo(S, n) == UNION {[1..k -> S] : k \in 1..n}

PolyCalls ==
  {[NoCall EXCEPT !.fn = "expand_polynomial", !.x = xs, !.degree = d] :
     xs \in SeqsUpTo(-MaxAbsX..MaxAbsX, MaxLen), d \in -1..MaxDegree}

\* inputs 0, 0.125, 0.3, 0.5, 1; bandwidths -0.3, 0, 0.1, 0.3, 1
GaussInputs == {0, 5, 12, 20, Unit}
GaussCenters == {<<>>, <<20>>, <<0, 20, Unit>>, linspace01(DefaultCenters)}
GaussSigmas == {-DefaultSigma, 0, 4, DefaultSigma, Unit}

GaussCalls ==
  {[NoCall EXCEPT !.fn = "expand_gaussian", !.x = xs, !.mus = ms, !.sigma = s] :
     xs \in SeqsUpTo(GaussInputs, MaxLen), ms \in GaussCenters, s \in GaussSigmas}

\* posteriors of one chain, query design matrices of one column, noise 0, 1, 3,
\* and the standard normal draws: all -1, all 0, all 1, or varying (zpat = 2)
PredictPoints == [w_0 : {0, 1}, w_r : {<<2>>, <<-1>>}]
PredictQueries == {<<(<<0>>), (<<1>>)>>, <<(<<2>>)>>}
NoiseDraws(zpat, n, K) ==
  [i \in 1..n |-> [k \in 1..K |-> IF zpat = 2 THEN ((i + k) % 3) - 1 ELSE zpat]]

PredictCalls ==
  {[NoCall EXCEPT !.fn = "sample_posterior_predictive", !.posterior = <<ps>>,
                  !.Phi = q, !.sigma = s, !.samples = n, !.zpat = zp] :
     ps \in SeqsUpTo(PredictPoints, MaxLen), q \in PredictQueries,
     s \in {0, 1, 3}, n \in 1..(MaxLen + 1), zp \in -1..2}

InitCalls ==
  /\ call \in PolyCalls \cup GaussCalls \cup PredictCalls
  /\ ret = NoRet
  /\ nb = <<>>
  /\ nb2 = <<>>

CallExpandPolynomial ==
  /\ call.fn = "expand_polynomial"
  /\ ~ret.done
  /\ ret' = Returned(expand_polynomial(call.x, call.degree))
  /\ UNCHANGED <<call, nb, nb2>>

CallExpandGaussian ==
  /\ call.fn = "expand_gaussian"
  /\ ~ret.done
  /\ ret' = Returned(expand_gaussian(call.x, call.mus, call.sigma))
  /\ UNCHANGED <<call, nb, nb2>>

CallSamplePosteriorPredictive ==
  /\ call.fn = "sample_posterior_predictive"
  /\ ~ret.done
  /\ ret' = Returned(Ok(sample_posterior_predictive(
                call.posterior, call.Phi, call.sigma, call.samples,
                NoiseDraws(call.zpat, call.samples, Len(call.Phi)))))
  /\ UNCHANGED <<call, nb, nb2>>

NextCalls ==
  CallExpandPolynomial \/ CallExpandGaussian \/ CallSamplePosteriorPredictive

SpecCalls == InitCalls /\ [][NextCalls]_vars

----------------------------------------------------------------------------
(* Properties of the expansion functions *)

Abs(a) == IF a < 0 THEN -a ELSE a

RECURSIVE IntPow(_, _)
IntPow(a, n) == IF n = 0 THEN 1 ELSE a * IntPow(a, n - 1)

\* C1: for every input vector x of length N >= 1 and every degree >= 1,
\* expand_polynomial returns an N x degree matrix whose column j (j = 1..degree)
\* is x^j elementwise; the column x^0 is not among them (column 1 is x itself).
C1_PolynomialColumns ==
  (ret.done /\ call.fn = "expand_polynomial" /\ call.degree >= 1) =>
    /\ ret.ok
    /\ Len(ret.val) = Len(call.x)
    /\ \A i \in 1..Len(call.x) :
         /\ Len(ret.val[i]) = call.degree
         /\ \A j \in 1..call.degree : ret.val[i][j] = IntPow(call.x[i], j)

C1_Witness ==
  /\ ret.done /\ call.fn = "expand_polynomial"
  /\ call.degree = 3 /\ call.x = <<2, -1>>
  /\ ret.val = <<(<<2, 4, 8>>), (<<-1, 1, -1>>)>>

----------------------------------------------------------------------------
(* Properties of the notebook run *)

Polynomial(r) == r.expand = "expand_polynomial"
Gaussian(r) == r.expand = "expand_gaussian"

\* the number of basis functions of the family in use
BasisCount(r) == IF Polynomial(r) THEN r.degree ELSE Len(r.mus)

EmptyBasis(r) == BasisCount(r) < 1

InvalidArguments(r) ==
  \/ EmptyBasis(r)
  \/ Gaussian(r) /\ r.sigma <= 0
  \/ Len(r.x) # Len(r.t)
  \/ noise <= 0 \/ PriorSigma <= 0

\* every posterior draw the run holds: recorded by the sampler or returned
RecordedDraws(r) ==
  UNION {{r.sampler.straces[c][k] : k \in 1..Len(r.sampler.straces[c])} :
           c \in DOMAIN r.sampler.straces}
  \cup UNION {{r.trace.straces[c][k] : k \in 1..Len(r.trace.straces[c])} :
                c \in DOMAIN r.trace.straces}

\* C2: every invalid argument (degree < 1, no centers, bandwidth <= 0, x and t
\* of different lengths, non-positive noise or prior scale) is reported as an
\* error before any sampling iteration, and no design matrix, model or sample
\* is produced from it.
C2_InvalidArgumentsRejected ==
  InvalidArguments(nb) =>
    /\ nb.pc \in {"start", "error"}
    /\ nb.Phi = <<>> /\ ~nb.model.defined
    /\ nb.sampler = NoSampler /\ nb.trace = NoTrace

\* C3 as claimed: in every state of define model -> sample -> predict the design
\* matrix the likelihood is bound to has as many rows as there are observed
\* targets and M columns, M the number of basis functions (3 and 9 with the
\* defaults) and the length of w_r in every draw; the predictive samples have
\* one entry per query input.
C3_RowsAlwaysMatchTargets ==
  nb.model.defined =>
    /\ Len(nb.Phi_shared) = Len(nb.model.observed)
    /\ \A i \in 1..Len(nb.Phi_shared) : Len(nb.Phi_shared[i]) = BasisCount(nb)
    /\ \A d \in RecordedDraws(nb) : Len(d.w_r) = BasisCount(nb)
    /\ nb.pc = "predicted" => nb.predictive_samples.shape[2] = Len(nb.x_test)

\* C3 as amended: the design matrix the likelihood is bound to has as many rows
\* as there are observed targets until prediction; Phi_shared.set_value then
\* binds it to the query inputs' matrix, which has one row per query input
\* while the observed targets stay.  In every state it has M columns, M the
\* number of basis functions (3 and 9 with the defaults), the shape of w_r and
\* the length of w_r in every draw; each predictive draw has one entry per
\* query input.
C3_DesignMatrixShape ==
  nb.model.defined =>
    /\ Len(nb.model.observed) = Len(nb.x)
    /\ Len(nb.Phi) = Len(nb.model.observed)
    /\ Len(nb.Phi_shared) =
         IF nb.pc = "predicted" THEN Len(nb.x_test) ELSE Len(nb.model.observed)
    /\ \A i \in 1..Len(nb.Phi_shared) : Len(nb.Phi_shared[i]) = BasisCount(nb)
    /\ nb.model.w_r_shape = BasisCount(nb)
    /\ (Polynomial(nb) /\ nb.degree = DefaultDegree) => nb.model.w_r_shape = 3
    /\ (Gaussian(nb) /\ nb.mus = linspace01(DefaultCenters)) => nb.model.w_r_shape = 9
    /\ \A d \in RecordedDraws(nb) : Len(d.w_r) = BasisCount(nb)
    /\ nb.pc = "predicted" => nb.predictive_samples.shape[2] = Len(nb.x_test)

C3_Witness ==
  /\ nb.pc = "predicted" /\ Gaussian(nb)
  /\ Len(nb.model.observed) = 3 /\ Len(nb.Phi_shared) = TestInputs
  /\ nb.model.w_r_shape = 9 /\ Len(nb.trace.straces[2][1].w_r) = 9

\* the posterior samples of a returned trace, all chains together
PosteriorSize(r) == Len(r.trace.straces) * Len(r.trace.straces[1])

\* C4 as claimed: for a posterior of S samples and K query inputs the predictive
\* samples are a K x S matrix (taken here in either orientation), each
\* posterior sample used exactly once.
C4_OneDrawPerPosteriorSample ==
  nb.pc = "predicted" =>
    /\ nb.predictive_samples.shape \in
         {<<Len(nb.x_test), PosteriorSize(nb)>>, <<PosteriorSize(nb), Len(nb.x_test)>>}
    /\ \A i, j \in 1..Len(nb.predictive_samples.points) :
         i # j => nb.predictive_samples.points[i] # nb.predictive_samples.points[j]

\* C4 as amended: predictive sampling makes one draw per (requested draw, query
\* point) pair, the number of requested draws being the samples argument, 5000,
\* whatever the posterior's size S: the result has 5000 rows and K columns.
\* Each draw is taken at one posterior sample; the first S draws go through
\* the S posterior samples once, and as S < 5000 the next draw takes the first
\* posterior sample again.
C4_DrawsPerRequestedSample ==
  nb.pc = "predicted" =>
    LET S == PosteriorSize(nb)
        pts == nb.predictive_samples.points
    IN /\ nb.predictive_samples.shape = <<5000, Len(nb.x_test)>>
       /\ S < nb.predictive_samples.shape[1]
       /\ Len(pts) = S + 1
       /\ \A i \in 1..Len(pts) :
            /\ pts[i][1] \in 1..Len(nb.trace.straces)
            /\ pts[i][2] \in 1..Len(nb.trace.straces[pts[i][1]])
       /\ \A i, j \in 1..S : i # j => pts[i] # pts[j]
       /\ pts[S + 1] = pts[1]

C4_Witness ==
  /\ nb.pc = "predicted"
  /\ PosteriorSize(nb) = Chains * Draws
  /\ nb.predictive_samples.shape = <<5000, TestInputs>>
  /\ nb.predictive_samples.points[Chains * Draws + 1] = <<1, 1>>

\* C6: two complete runs with the same seed, the same configuration and the
\* same data produce identical posterior samples and identical predictive
\* samples (the runs of SpecRuns share configuration and data; the code has
\* no seed to share).
C6_SameResults ==
  (nb.pc = "predicted" /\ nb2.pc = "predicted") =>
    /\ nb2.trace = nb.trace
    /\ nb2.predictive_samples = nb.predictive_samples

\* C8: once argument validation has passed (the model cell, which holds the only
\* checks there are, has run through), a sampling run never aborts: it ends
\* with a result, not an error.
C8_NoAbortAfterValidation ==
  nb.model.defined => nb.pc # "error"

C10_EmptyBasisSamples ==
  EmptyBasis(nb) =>
    /\ nb.pc # "error"
    /\ nb.model.defined => nb.model.w_r_shape = 0
    /\ \A d \in RecordedDraws(nb) : d.w_r = <<>>

\* C10 as amended: with no basis columns (degree < 1, no centers) no model is
\* built: the expansion raises ValueError (np.stack of an empty list) in the
\* model cell, before any sampling.  Every model that is built has a w of
\* length M >= 1, and so has every draw.
C10_EmptyBasisRaises ==
  /\ EmptyBasis(nb) =>
       /\ nb.pc \in {"start", "error"}
       /\ nb.pc = "error" => nb.err = "ValueError"
       /\ nb.Phi = <<>> /\ ~nb.model.defined
       /\ nb.sampler = NoSampler /\ nb.trace = NoTrace
  /\ nb.model.defined => nb.model.w_r_shape >= 1
  /\ \A d \in RecordedDraws(nb) : Len(d.w_r) >= 1

C10_Witness ==
  /\ EmptyBasis(nb) /\ nb.pc = "error" /\ nb.err = "ValueError"
  /\ ~nb.model.defined

====
